---- MODULE Spec2Model ----
(***************************************************************************)
(* Model of nx-rs-lib/src/graphing/types.rs: TaskGraphBuilder (add_task,   *)
(* add_dependency, build) and TaskGraph (next, done, remaining).           *)
(*                                                                         *)
(* build() calls pathfinding::prelude::topological_sort; the operators     *)
(* topological_sort / visit / visit_all below follow that function's       *)
(* depth-first algorithm (unmarked / marked / temp sets, push_front on     *)
(* finish, Err(node) on meeting a node of the current walk again).         *)
(* The iteration order of a std HashMap / HashSet is unspecified, so the   *)
(* build action draws both iteration orders nondeterministically.          *)
(***************************************************************************)
EXTENDS Naturals, Sequences, FiniteSets

\* ------------------------------------------------------------------ bounds
\* The task ids and task names the callers draw their arguments from.
Ids == {"a", "b", "c"}
Names == {"n1", "n2"}
\* Total number of dependency entries the builder may hold (add_dependency calls).
MaxDeps == 3

\* ------------------------------------------------------------------- state
VARIABLES
    phase,          \* "building": a TaskGraphBuilder exists; "ready": build returned Ok(TaskGraph);
                    \* "failed": build returned Err(id); "panicked": next() hit unwrap() on None
    tasks,          \* HashMap<TaskID, Task>: function id -> Task, domain = the stored ids
    edges,          \* HashMap<TaskID, Vec<TaskID>>: function id -> sequence of dependency ids
    done,           \* TaskGraph.done: HashSet<TaskID>
    ordered_tasks,  \* TaskGraph.ordered_tasks: Vec<TaskID>
    last,           \* the last call that returned a value (new, build, next) or changed the
                    \* TaskGraph (done), and what it returned
    yielded,        \* history: the ids next() has returned as Some(Some(task)), in order
    built_order     \* history: the ordered_tasks that build() put in the TaskGraph

vars == <<phase, tasks, edges, done, ordered_tasks, last, yielded, built_order>>

NoTask == [id |-> "", name |-> ""]
Task(id, name) == [id |-> id, name |-> name]
Ret(op, ret, task, err) == [op |-> op, ret |-> ret, task |-> task, err |-> err]

\* ----------------------------------------------------------------- helpers
RECURSIVE SumLen(_, _)
SumLen(g, S) ==
    IF S = {} THEN 0
    ELSE LET t == CHOOSE x \in S : TRUE IN Len(g[t]) + SumLen(g, S \ {t})

NumDeps(g) == SumLen(g, DOMAIN g)

\* The ids of a Vec<TaskID>, as `.iter().cloned().collect::<HashSet<TaskID>>()` gives them.
ToSet(s) == {s[i] : i \in 1..Len(s)}

\* Vec::contains
contains(s, x) == \E i \in 1..Len(s) : s[i] = x

\* All iteration orders of a hash collection holding the elements of S.
Perms(S) ==
    {f \in [1..Cardinality(S) -> S] : \A i, j \in 1..Cardinality(S) : f[i] = f[j] => i = j}

\* Mutant of RemoveAt: `remove(0)`, the front element whatever i is.
RemoveAt_front(s, i) == Tail(s)

\* Mutant of RemoveAt: `swap_remove(i)`, the last element moved into the hole.
RemoveAt_swap(s, i) ==
    [j \in 1..(Len(s) - 1) |-> IF j = i THEN s[Len(s)] ELSE s[j]]

\* Vec::remove(i), i counted from 1
RemoveAt(s, i) == [j \in 1..(Len(s) - 1) |-> IF j < i THEN s[j] ELSE s[j + 1]]

\* Mutant of or_insert_with: `insert(k, Vec::new())`, an existing list replaced.
or_insert_reset(g, k) ==
    [t \in DOMAIN g \cup {k} |-> IF t = k THEN <<>> ELSE g[t]]

\* HashMap::entry(k).or_insert_with(Vec::new)
or_insert_with(g, k) ==
    [t \in DOMAIN g \cup {k} |-> IF t \in DOMAIN g THEN g[t] ELSE <<>>]

\* HashMap::insert(k, v)
insert(m, k, v) == [t \in DOMAIN m \cup {k} |-> IF t = k THEN v ELSE m[t]]

\* ------------------------------------------------------- TaskGraphBuilder
Init ==
    /\ phase = "building"
    /\ tasks = [t \in {} |-> NoTask]
    /\ edges = [t \in {} |-> <<>>]
    /\ done = {}
    /\ ordered_tasks = <<>>
    /\ last = Ret("new", "Unit", NoTask, "")
    /\ yielded = <<>>
    /\ built_order = <<>>

TaskGraphBuilder_add_task ==
    /\ phase = "building"
    /\ \E id \in Ids, name \in Names :
        /\ edges' = or_insert_with(edges, id)
        /\ tasks' = insert(tasks, id, Task(id, name))
    /\ UNCHANGED <<phase, done, ordered_tasks, last, yielded, built_order>>

TaskGraphBuilder_add_dependency ==
    /\ phase = "building"
    /\ NumDeps(edges) < MaxDeps
    /\ \E task \in Ids, dependency \in Ids :
        edges' = [or_insert_with(edges, task) EXCEPT ![task] = Append(@, dependency)]
    /\ UNCHANGED <<phase, tasks, done, ordered_tasks, last, yielded, built_order>>

\* ---- pathfinding::prelude::topological_sort, as build() calls it ---------
\* The walk's state: roots still unmarked, nodes finished (marked), nodes entered
\* in the current root's walk (temp), the output deque, and the Err value.
NoErr == ""
Walk(unmarked, marked, temp, sorted, err) ==
    [unmarked |-> unmarked, marked |-> marked, temp |-> temp, sorted |-> sorted, err |-> err]

\* The `successors` closure of build(): edges.iter() in the map's iteration
\* order ord, keeping the keys whose dependency list contains task_id.
successors(g, ord, task_id) == SelectSeq(ord, LAMBDA t : contains(g[t], task_id))

\* The `start_edges` of build(): edges.iter() keeping the keys with an empty list.
start_edges(g, ord) == SelectSeq(ord, LAMBDA t : Len(g[t]) = 0)

RECURSIVE visit(_, _, _, _)
RECURSIVE visit_all(_, _, _, _)

\* Mutant of visit: the temp test made before the marked test, so a finished
\* node met again in the same root's walk is reported as a cycle.
visit_temp_first(g, ord, node, w) ==
    LET w1 == [w EXCEPT !.unmarked = @ \ {node}] IN
    IF node \in w1.temp THEN [w1 EXCEPT !.err = node]
    ELSE IF node \in w1.marked THEN w1
    ELSE LET w2 == [w1 EXCEPT !.temp = @ \cup {node}]
             w3 == visit_all(g, ord, successors(g, ord, node), w2)
         IN IF w3.err # NoErr THEN w3
            ELSE [w3 EXCEPT !.marked = @ \cup {node}, !.sorted = <<node>> \o @]

\* fn visit(node, successors, unmarked, marked, temp, sorted) -> Result<(), N>
visit(g, ord, node, w) ==
    LET w1 == [w EXCEPT !.unmarked = @ \ {node}] IN
    IF node \in w1.marked THEN w1
    ELSE IF node \in w1.temp THEN [w1 EXCEPT !.err = node]
    ELSE LET w2 == [w1 EXCEPT !.temp = @ \cup {node}]
             w3 == visit_all(g, ord, successors(g, ord, node), w2)
         IN IF w3.err # NoErr THEN w3
            ELSE [w3 EXCEPT !.marked = @ \cup {node}, !.sorted = <<node>> \o @]

\* `for n in successors(node) { visit(&n, ...)?; }`
visit_all(g, ord, succ, w) ==
    IF succ = <<>> THEN w
    ELSE LET w1 == visit(g, ord, Head(succ), w) IN
         IF w1.err # NoErr THEN w1 ELSE visit_all(g, ord, Tail(succ), w1)

\* `while let Some(node) = roots.iter().next().cloned() { temp.clear(); visit(..)?; }`
\* rootOrd is the iteration order of the `roots` HashSet.
RECURSIVE topo_loop(_, _, _, _)
topo_loop(g, ord, rootOrd, w) ==
    LET left == SelectSeq(rootOrd, LAMBDA r : r \in w.unmarked) IN
    IF left = <<>> THEN w
    ELSE LET w1 == visit(g, ord, Head(left), [w EXCEPT !.temp = {}]) IN
         IF w1.err # NoErr THEN w1 ELSE topo_loop(g, ord, rootOrd, w1)

\* topological_sort(&start_edges, successors): the final walk; err # NoErr is
\* Err(err), otherwise Ok(sorted).
topological_sort(g, ord, rootOrd) ==
    topo_loop(g, ord, rootOrd, Walk(ToSet(rootOrd), {}, {}, <<>>, NoErr))

TaskGraphBuilder_build ==
    /\ phase = "building"
    /\ \E ord \in Perms(DOMAIN edges) :
       \E rootOrd \in Perms(ToSet(start_edges(edges, ord))) :
        LET r == topological_sort(edges, ord, rootOrd) IN
        IF r.err # NoErr
        THEN /\ phase' = "failed"
             /\ last' = Ret("build", "Err", NoTask, r.err)
             /\ UNCHANGED <<done, ordered_tasks, built_order>>
        ELSE /\ phase' = "ready"
             /\ done' = {}
             /\ ordered_tasks' = r.sorted
             /\ built_order' = r.sorted
             /\ last' = Ret("build", "Ok", NoTask, "")
    /\ UNCHANGED <<tasks, edges, yielded>>

\* --------------------------------------------------------------- TaskGraph
remaining == Len(ordered_tasks)

\* Mutant of is_ready: `!self.done.is_disjoint(..)` for `is_superset` (one done
\* dependency is enough).
is_ready_any(g, d, task_id) ==
    \/ task_id \notin DOMAIN g
    \/ g[task_id] = <<>>
    \/ ToSet(g[task_id]) \cap d # {}

\* Mutant of is_ready: only the sizes compared (`self.done.len() >= deps.len()`).
is_ready_len(g, d, task_id) ==
    \/ task_id \notin DOMAIN g
    \/ Cardinality(d) >= Cardinality(ToSet(g[task_id]))

\* Mutant of is_ready: the done dependencies counted against the list's length.
is_ready_count(g, d, task_id) ==
    \/ task_id \notin DOMAIN g
    \/ Cardinality(ToSet(g[task_id]) \cap d) = Len(g[task_id])

\* `self.edges.get(&task_id).is_none() || self.done.is_superset(&deps as a HashSet)`
is_ready(g, d, task_id) ==
    \/ task_id \notin DOMAIN g
    \/ ToSet(g[task_id]) \subseteq d

\* The `for i in 0..self.ordered_tasks.len()` scan of next(), from index i
\* (counted from 1): the index at which it stops, 0 when it runs to the end.
RECURSIVE scan(_, _, _, _)
scan(order, g, d, i) ==
    IF i > Len(order) THEN 0
    ELSE IF is_ready(g, d, order[i]) THEN i
    ELSE scan(order, g, d, i + 1)

\* Mutant of first_ready: the scan run back to front (`(0..len).rev()`).
RECURSIVE scan_rev(_, _, _, _)
scan_rev(order, g, d, i) ==
    IF i < 1 THEN 0
    ELSE IF is_ready(g, d, order[i]) THEN i
    ELSE scan_rev(order, g, d, i - 1)

last_ready(order, g, d) == scan_rev(order, g, d, Len(order))

first_ready(order, g, d) == scan(order, g, d, 1)

\* Mutant of next(): the scan falling through returns None, not Some(None).
TaskGraph_next_none ==
    /\ phase = "ready"
    /\ IF Len(ordered_tasks) = 0
       THEN /\ last' = Ret("next", "Exhausted", NoTask, "")
            /\ UNCHANGED <<phase, ordered_tasks, yielded>>
       ELSE LET i == first_ready(ordered_tasks, edges, done) IN
            IF i = 0
            THEN /\ last' = Ret("next", "Exhausted", NoTask, "")
                 /\ UNCHANGED <<phase, ordered_tasks, yielded>>
            ELSE LET task_id == ordered_tasks[i] IN
                 /\ ordered_tasks' = RemoveAt(ordered_tasks, i)
                 /\ IF task_id \in DOMAIN tasks
                    THEN /\ last' = Ret("next", "Ready", tasks[task_id], "")
                         /\ yielded' = Append(yielded, task_id)
                         /\ UNCHANGED phase
                    ELSE \* self.tasks.get(&task_id).unwrap() on None
                         /\ phase' = "panicked"
                         /\ last' = Ret("next", "Panic", NoTask, "")
                         /\ UNCHANGED yielded
    /\ UNCHANGED <<tasks, edges, done, built_order>>

\* Mutant of next(): without the `len() == 0` early return.
TaskGraph_next_nocheck ==
    /\ phase = "ready"
    /\ IF FALSE
       THEN /\ last' = Ret("next", "Exhausted", NoTask, "")
            /\ UNCHANGED <<phase, ordered_tasks, yielded>>
       ELSE LET i == first_ready(ordered_tasks, edges, done) IN
            IF i = 0
            THEN /\ last' = Ret("next", "NotReady", NoTask, "")
                 /\ UNCHANGED <<phase, ordered_tasks, yielded>>
            ELSE LET task_id == ordered_tasks[i] IN
                 /\ ordered_tasks' = RemoveAt(ordered_tasks, i)
                 /\ IF task_id \in DOMAIN tasks
                    THEN /\ last' = Ret("next", "Ready", tasks[task_id], "")
                         /\ yielded' = Append(yielded, task_id)
                         /\ UNCHANGED phase
                    ELSE \* self.tasks.get(&task_id).unwrap() on None
                         /\ phase' = "panicked"
                         /\ last' = Ret("next", "Panic", NoTask, "")
                         /\ UNCHANGED yielded
    /\ UNCHANGED <<tasks, edges, done, built_order>>

\* Mutant of next(): the task handed out is put into the completion set.
TaskGraph_next_autodone ==
    /\ phase = "ready"
    /\ IF Len(ordered_tasks) = 0
       THEN /\ last' = Ret("next", "Exhausted", NoTask, "")
            /\ UNCHANGED <<phase, ordered_tasks, yielded, done>>
       ELSE LET i == first_ready(ordered_tasks, edges, done) IN
            IF i = 0
            THEN /\ last' = Ret("next", "NotReady", NoTask, "")
                 /\ UNCHANGED <<phase, ordered_tasks, yielded, done>>
            ELSE LET task_id == ordered_tasks[i] IN
                 /\ ordered_tasks' = RemoveAt(ordered_tasks, i)
                 /\ IF task_id \in DOMAIN tasks
                    THEN /\ last' = Ret("next", "Ready", tasks[task_id], "")
                         /\ yielded' = Append(yielded, task_id)
                         /\ done' = done \cup {task_id}
                         /\ UNCHANGED phase
                    ELSE \* self.tasks.get(&task_id).unwrap() on None
                         /\ phase' = "panicked"
                         /\ last' = Ret("next", "Panic", NoTask, "")
                         /\ UNCHANGED <<yielded, done>>
    /\ UNCHANGED <<tasks, edges, built_order>>

\* fn next(&mut self) -> Option<Option<Task>>
TaskGraph_next ==
    /\ phase = "ready"
    /\ IF Len(ordered_tasks) = 0
       THEN /\ last' = Ret("next", "Exhausted", NoTask, "")
            /\ UNCHANGED <<phase, ordered_tasks, yielded>>
       ELSE LET i == first_ready(ordered_tasks, edges, done) IN
            IF i = 0
            THEN /\ last' = Ret("next", "NotReady", NoTask, "")
                 /\ UNCHANGED <<phase, ordered_tasks, yielded>>
            ELSE LET task_id == ordered_tasks[i] IN
                 /\ ordered_tasks' = RemoveAt(ordered_tasks, i)
                 /\ IF task_id \in DOMAIN tasks
                    THEN /\ last' = Ret("next", "Ready", tasks[task_id], "")
                         /\ yielded' = Append(yielded, task_id)
                         /\ UNCHANGED phase
                    ELSE \* self.tasks.get(&task_id).unwrap() on None
                         /\ phase' = "panicked"
                         /\ last' = Ret("next", "Panic", NoTask, "")
                         /\ UNCHANGED yielded
    /\ UNCHANGED <<tasks, edges, done, built_order>>

\* Mutant of done(): the finished id is also dropped from ordered_tasks.
TaskGraph_done_drop ==
    /\ phase = "ready"
    /\ \E task_id \in Ids :
        /\ done' = done \cup {task_id}
        /\ ordered_tasks' = SelectSeq(ordered_tasks, LAMBDA t : t # task_id)
    /\ last' = Ret("done", "Unit", NoTask, "")
    /\ UNCHANGED <<phase, tasks, edges, yielded, built_order>>

\* Mutant of done(): an id already in the set is taken out again.
TaskGraph_done_toggle ==
    /\ phase = "ready"
    /\ \E task_id \in Ids :
        done' = IF task_id \in done THEN done \ {task_id} ELSE done \cup {task_id}
    /\ last' = Ret("done", "Unit", NoTask, "")
    /\ UNCHANGED <<phase, tasks, edges, ordered_tasks, yielded, built_order>>

\* Mutant of done(): a finished task that is no longer queued is queued again.
TaskGraph_done_requeue ==
    /\ phase = "ready"
    /\ \E task_id \in Ids :
        /\ done' = done \cup {task_id}
        /\ ordered_tasks' = IF task_id \in DOMAIN tasks /\ ~contains(ordered_tasks, task_id)
                            THEN Append(ordered_tasks, task_id)
                            ELSE ordered_tasks
    /\ last' = Ret("done", "Unit", NoTask, "")
    /\ UNCHANGED <<phase, tasks, edges, yielded, built_order>>

\* pub fn done(&mut self, task_id: &TaskID)
TaskGraph_done ==
    /\ phase = "ready"
    /\ \E task_id \in Ids : done' = done \cup {task_id}
    /\ last' = Ret("done", "Unit", NoTask, "")
    /\ UNCHANGED <<phase, tasks, edges, ordered_tasks, yielded, built_order>>

Next ==
    \/ TaskGraphBuilder_add_task
    \/ TaskGraphBuilder_add_dependency
    \/ TaskGraphBuilder_build
    \/ TaskGraph_next
    \/ TaskGraph_done

Spec == Init /\ [][Next]_vars

\* The executor that reports only what it was given: done(task_id) is called
\* only with ids that an earlier next() returned as Some(Some(task)).
TaskGraph_done_reported ==
    /\ TaskGraph_done
    /\ done' \subseteq ToSet(yielded)

NextExec ==
    \/ TaskGraphBuilder_add_task
    \/ TaskGraphBuilder_add_dependency
    \/ TaskGraphBuilder_build
    \/ TaskGraph_next
    \/ TaskGraph_done_reported

SpecExec == Init /\ [][NextExec]_vars

\* ================================================================== claims
\* The dependency relation of a dependency map: t depends on d.
DepsOf(g, t) == IF t \in DOMAIN g THEN ToSet(g[t]) ELSE {}

RECURSIVE Closure(_, _)
Closure(g, S) ==
    LET N == S \cup UNION {DepsOf(g, t) : t \in S} IN
    IF N = S THEN S ELSE Closure(g, N)

\* The ids reachable from t by a non-empty dependency path.
Reach(g, t) == Closure(g, DepsOf(g, t))
OnCycle(g, t) == t \in Reach(g, t)
HasCycle(g) == \E t \in DOMAIN g : OnCycle(g, t)

\* Position of id x in sequence s, 0 when absent.
Pos(s, x) == IF contains(s, x) THEN CHOOSE i \in 1..Len(s) : s[i] = x ELSE 0
Count(s, x) == Cardinality({i \in 1..Len(s) : s[i] = x})

\* The task at position i of the working order has all its dependencies done.
Satisfied(i) == DepsOf(edges, ordered_tasks[i]) \subseteq done

\* A step in which next() returns. A next() call that changes no variable
\* repeats the call that produced the current `last` from the same edges, done
\* and ordered_tasks, so the steps that change a variable cover every call.
PollStep == phase = "ready" /\ last'.op = "next"

\* C1: whenever next() returns Some(Some(t)), every id in t's dependency list
\* is in the completion set at the moment of that call.
C1_ReadyOnlyWhenDepsDone ==
    [][PollStep /\ last'.ret = "Ready" => DepsOf(edges, last'.task.id) \subseteq done]_vars

C1_Witness ==
    /\ last.op = "next" /\ last.ret = "Ready"
    /\ Cardinality(DepsOf(edges, last.task.id)) = 2

\* C2: a dependency declaration that contains a cycle never yields a
\* TaskGraph: build() fails with a cycle-detection error.
C2_CycleRejected ==
    (last.op = "build" /\ HasCycle(edges)) => (phase = "failed" /\ last.ret = "Err")

\* C3: for an acyclic declaration build() succeeds and, for every pair (t, d)
\* with t depending on d, both are in the initial working order, d before t.
C3_AcyclicBuildsInOrder ==
    (last.op = "build" /\ ~HasCycle(edges)) =>
        /\ phase = "ready"
        /\ \A t \in DOMAIN edges : \A d \in DepsOf(edges, t) :
            /\ Pos(ordered_tasks, t) > 0
            /\ Pos(ordered_tasks, d) > 0
            /\ Pos(ordered_tasks, d) < Pos(ordered_tasks, t)

\* C4: polling yields every registered task exactly once before Exhausted.
\* Stated on finite runs: Exhausted is final (the working order never grows),
\* so a next() that returns None on a graph whose declaration admits a valid
\* completion order must come after Ready for every registered task, once each.
C4_ExhaustedOnlyAfterAllYielded ==
    (phase = "ready" /\ last.op = "next" /\ last.ret = "Exhausted" /\ ~HasCycle(edges)) =>
        \A t \in DOMAIN tasks : Count(yielded, t) = 1

\* C5: the id named by a failed build() lies on a cycle of the dependency
\* relation (a non-empty dependency path leads from it back to itself).
C5_ErrNamesCycleMember ==
    phase = "failed" => (last.ret = "Err" /\ OnCycle(edges, last.err))

C5_Witness ==
    /\ phase = "failed"
    /\ \E t \in DOMAIN edges : edges[t] = <<>>
    /\ \E t \in DOMAIN edges : ~OnCycle(edges, t) /\ edges[t] # <<>>

\* C6: when next() returns Some(Some(t)), t is the first task of the working
\* order, front to back, whose dependency ids are all in the completion set,
\* and exactly that element leaves the working order.
C6_FirstSatisfiedIsRemoved ==
    [][PollStep /\ last'.ret = "Ready" =>
        \E i \in 1..Len(ordered_tasks) :
            /\ ordered_tasks[i] = last'.task.id
            /\ Satisfied(i)
            /\ \A j \in 1..(i - 1) : ~Satisfied(j)
            /\ ordered_tasks' = SubSeq(ordered_tasks, 1, i - 1)
                                    \o SubSeq(ordered_tasks, i + 1, Len(ordered_tasks))]_vars

\* next() passed over an unsatisfied task that stands earlier in the working
\* order and returned a later one, with nothing ever marked done.
C6_Witness ==
    /\ last.op = "next" /\ last.ret = "Ready"
    /\ done = {}
    /\ Len(yielded) = 2
    /\ Len(ordered_tasks) = 1
    /\ DepsOf(edges, ordered_tasks[1]) # {}
    /\ Pos(built_order, ordered_tasks[1]) < Pos(built_order, last.task.id)

\* C7: on every TaskGraph a successful build produced, next() returns one of
\* None, Some(None), Some(Some(task)); it never aborts.
C7_PollAlwaysReturns == phase # "panicked"

\* C8: remaining() drops by exactly one on a next() that returns
\* Some(Some(_)), and is unchanged by done() and by a next() that returns
\* Some(None) or None.
C8_RemainingCountsDispatch ==
    [][(phase = "ready" /\ phase' = "ready") =>
        IF last'.op = "next" /\ last'.ret = "Ready"
        THEN remaining' + 1 = remaining
        ELSE remaining' = remaining]_vars

C8_Witness ==
    /\ last.op = "done"
    /\ remaining = 1
    /\ Len(yielded) = 2
    /\ Cardinality(done) = 2

\* C9: with a non-empty working order in which no task has all its
\* dependencies done, next() returns Some(None) and changes neither the
\* working order nor the completion set.
C9_NotReadyWhenBlocked ==
    [][(PollStep /\ ordered_tasks # <<>> /\ \A i \in 1..Len(ordered_tasks) : ~Satisfied(i)) =>
        (last'.ret = "NotReady" /\ UNCHANGED <<ordered_tasks, done>>)]_vars

C9_Witness ==
    /\ last.op = "next" /\ last.ret = "NotReady"
    /\ ordered_tasks # <<>>
    /\ yielded # <<>>

\* C10: next() returns None exactly when the working order is empty, and an
\* empty working order stays empty whatever done() calls follow, so every
\* later next() returns None too.
C10_ExhaustedIsTerminal ==
    [][phase = "ready" =>
        /\ last'.op = "next" => (last'.ret = "Exhausted" <=> ordered_tasks = <<>>)
        /\ ordered_tasks = <<>> => ordered_tasks' = <<>>
        /\ (last.op = "next" /\ last.ret = "Exhausted") => ordered_tasks = <<>>]_vars

C10_Witness ==
    /\ last.op = "next" /\ last.ret = "Exhausted"
    /\ Len(yielded) = 3
    /\ done # {}

\* Every value build()'s topological_sort call can return for dependency map
\* g, over the iteration orders of the edges map and of the roots set.
BuildResults(g) ==
    UNION {{LET r == topological_sort(g, ord, rootOrd) IN
              [err |-> r.err, sorted |-> IF r.err = NoErr THEN r.sorted ELSE <<>>] :
            rootOrd \in Perms(ToSet(start_edges(g, ord)))} :
           ord \in Perms(DOMAIN g)}

\* C11 as stated: build() computes the same working order on every run of the
\* same declarations, i.e. the order a build produced is the only one build()
\* can produce for this dependency map (the equality of the poll outcomes
\* across runs rests on it).
C11_SameOrderEveryRun ==
    (last.op = "build" /\ phase = "ready") =>
        \A r \in BuildResults(edges) : r.err = NoErr /\ r.sorted = built_order

\* C11 amended: the order is fixed per TaskGraph, not per declaration. Every
\* outcome of next() is determined by the order build() stored, the tasks
\* already dispatched and the completion set: None iff no undispatched task
\* is left, Some(None) iff some are left and none is satisfied, and
\* Some(Some(t)) only for the satisfied undispatched task standing first in
\* the built order.
C11_TieBreakByBuiltPosition ==
    [][PollStep =>
        LET Rem == ToSet(built_order) \ ToSet(yielded)
            Sat == {u \in Rem : DepsOf(edges, u) \subseteq done}
        IN /\ ToSet(ordered_tasks) = Rem
           /\ last'.ret = "Exhausted" <=> Rem = {}
           /\ last'.ret = "NotReady" <=> (Rem # {} /\ Sat = {})
           /\ last'.ret = "Ready" =>
                /\ last'.task.id \in Sat
                /\ \A u \in Sat : Pos(built_order, last'.task.id) <= Pos(built_order, u)
           /\ built_order' = built_order]_vars

\* Two tasks were satisfied at once; next() returned the one standing first.
C11_Witness ==
    /\ last.op = "next" /\ last.ret = "Ready"
    /\ \E i \in 1..Len(ordered_tasks) :
        /\ Satisfied(i)
        /\ Pos(built_order, ordered_tasks[i]) > Pos(built_order, last.task.id)

\* C12: done(task_id) is accepted for every id, registered or not, dispatched
\* or not, and its whole effect is done' = done \cup {task_id}: a call with an
\* id already in the completion set leaves the TaskGraph as it was.
C12_DoneIdempotentUnconditional ==
    /\ [](phase = "ready" =>
            \A id \in Ids : ENABLED (TaskGraph_done /\ done' = done \cup {id}))
    /\ [][(phase = "ready" /\ last'.op = "done") =>
            /\ \E id \in Ids : done' = done \cup {id}
            /\ UNCHANGED <<phase, tasks, edges, ordered_tasks>>]_vars

\* done() was called with an id that has no dependency-map entry and with an
\* id still waiting in the working order.
C12_Witness ==
    /\ phase = "ready" /\ last.op = "done"
    /\ done \ DOMAIN edges # {}
    /\ done \cap ToSet(ordered_tasks) # {}
    /\ done \cap ToSet(yielded) # {}

\* A registered task with no dependencies and no dependents.
Isolated(e) ==
    /\ e \in DOMAIN tasks
    /\ DepsOf(edges, e) = {}
    /\ \A t \in DOMAIN edges : e \notin DepsOf(edges, t)

\* C13: while an isolated task is still in the working order, every next()
\* returns Some(Some(task)). (A next() that does not return Ready leaves the
\* isolated task in the working order, so the state after the call shows it.)
C13_IsolatedNeverBlocked ==
    (last.op = "next" /\ \E e \in Ids : Isolated(e) /\ contains(ordered_tasks, e)) =>
        last.ret = "Ready"

\* s is a subsequence of t.
RECURSIVE IsSubseq(_, _)
IsSubseq(s, t) ==
    IF s = <<>> THEN TRUE
    ELSE IF t = <<>> THEN FALSE
    ELSE IF Head(s) = Head(t) THEN IsSubseq(Tail(s), Tail(t))
    ELSE IsSubseq(s, Tail(t))

\* C14: the working order is always a subsequence of the order build()
\* computed; a step either leaves it alone or takes exactly one element out,
\* keeping the others in place, and done() leaves it alone.
C14_OrderOnlyShrinks ==
    /\ [](phase \in {"ready", "panicked"} => IsSubseq(ordered_tasks, built_order))
    /\ [][phase = "ready" =>
            /\ last'.op = "done" => ordered_tasks' = ordered_tasks
            /\ \/ ordered_tasks' = ordered_tasks
               \/ \E i \in 1..Len(ordered_tasks) :
                    ordered_tasks' = SubSeq(ordered_tasks, 1, i - 1)
                                        \o SubSeq(ordered_tasks, i + 1, Len(ordered_tasks))]_vars

\* Tasks were taken from the front and from behind a task that still waits.
C14_Witness ==
    /\ phase = "ready" /\ last.op = "done"
    /\ Len(built_order) = 3
    /\ ordered_tasks = <<built_order[2]>>

\* C15: the completion set is empty when build() returns, no step takes an id
\* out of it, and next() leaves it as it is (the task it hands out included).
C15_DoneOnlyGrows ==
    /\ []((phase = "ready" /\ last.op = "build") => done = {})
    /\ [][/\ done \subseteq done'
          /\ last'.op = "next" => done' = done]_vars

C15_Witness ==
    /\ last.op = "next" /\ last.ret = "Ready"
    /\ last.task.id \notin done
    /\ done # {}

\* C16: add_task(task) stores task under its id (over any earlier one), adds
\* an empty dependency list when the id has none, and changes no dependency
\* list that exists, so dependencies declared before it are kept. (A step of
\* the builder that changes tasks is an add_task call; an add_task call that
\* changes nothing stores an equal task over an id that has its list.)
C16_AddTaskKeepsDependencies ==
    [][(phase = "building" /\ phase' = "building" /\ tasks' # tasks) =>
        \E id \in Ids, name \in Names :
            /\ DOMAIN tasks' = DOMAIN tasks \cup {id}
            /\ tasks'[id] = [id |-> id, name |-> name]
            /\ \A t \in DOMAIN tasks \ {id} : tasks'[t] = tasks[t]
            /\ DOMAIN edges' = DOMAIN edges \cup {id}
            /\ \A t \in DOMAIN edges : edges'[t] = edges[t]
            /\ id \notin DOMAIN edges => edges'[id] = <<>>]_vars

\* A task stored under an id that has two declared dependencies.
C16_Witness ==
    /\ phase = "building"
    /\ \E id \in DOMAIN tasks : tasks[id].name = "n2" /\ Len(edges[id]) = 2

\* A dependency list with every repeated id dropped.
RECURSIVE DedupSeq(_)
DedupSeq(s) ==
    IF s = <<>> THEN <<>>
    ELSE LET r == DedupSeq(SubSeq(s, 1, Len(s) - 1)) IN
         IF contains(r, s[Len(s)]) THEN r ELSE Append(r, s[Len(s)])

Dedup(g) == [t \in DOMAIN g |-> DedupSeq(g[t])]

\* C17: declaring a (task, dependency) pair more than once changes nothing:
\* build() has the same possible results (orders, or cycle errors) as for the
\* declaration with each pair once, and in every TaskGraph state the scan of
\* next() stops at the same task as it would with each pair once.
C17_DuplicatesTolerated ==
    /\ phase = "building" => BuildResults(edges) = BuildResults(Dedup(edges))
    /\ phase = "ready" =>
        first_ready(ordered_tasks, edges, done) = first_ready(ordered_tasks, Dedup(edges), done)

\* next() handed out a task whose dependency list names an id twice.
C17_Witness ==
    /\ last.op = "next" /\ last.ret = "Ready"
    /\ Len(edges[last.task.id]) > Cardinality(ToSet(edges[last.task.id]))

\* C18: a successful build() puts every id that has a dependency-map entry
\* into the working order exactly once, so remaining() is their number.
C18_BuildCoversEveryEntry ==
    (phase = "ready" /\ last.op = "build") =>
        /\ \A t \in DOMAIN edges : Count(ordered_tasks, t) = 1
        /\ remaining = Cardinality(DOMAIN edges)

\* C19: no task id is returned by next() as Some(Some(task)) twice, whatever
\* done() calls are made before or after it was handed out.
C19_ReadyAtMostOnce == \A t \in Ids : Count(yielded, t) <= 1

\* Every task was handed out, each was marked done, and next() was called again.
C19_Witness ==
    /\ last.op = "next" /\ last.ret = "Exhausted"
    /\ Len(yielded) = 3
    /\ done = Ids

\* C20 (under SpecExec): every task handed out had each of its dependencies
\* handed out before it and reported done; so a task with a dependency that
\* was handed out but never reported done is never handed out.
C20_DispatchRespectsDependencies ==
    \A i \in 1..Len(yielded) : \A d \in DepsOf(edges, yielded[i]) :
        /\ d \in done
        /\ \E j \in 1..(i - 1) : yielded[j] = d

\* a, then b (which depends on a) were handed out, only a was reported done,
\* and next() answers Some(None) for the task that waits for b.
C20_Witness ==
    /\ last.op = "next" /\ last.ret = "NotReady"
    /\ Len(yielded) = 2
    /\ DepsOf(edges, yielded[2]) = {yielded[1]}
    /\ done = {yielded[1]}
    /\ Len(ordered_tasks) = 1
    /\ yielded[2] \in DepsOf(edges, ordered_tasks[1])
====
